---- MODULE Spec2Model ----
(***************************************************************************)
(* Model of the MSF container engine of ducible (src/src/msf.cpp):         *)
(* MsfFile::write with its helpers isFpmPage, writePage and writeStream,   *)
(* and the parsing constructor MsfFile::MsfFile(FileRef).                  *)
(*                                                                         *)
(* Scaling.  The page size is kPageSize == 2^PageBits; the source sets     *)
(* 4096 (PageBits = 12).  The writer depends on the page size only through *)
(* chunking, the mask of isFpmPage and the length of a page, so a smaller  *)
(* power of two exercises the same paths with small files.                 *)
(***************************************************************************)
EXTENDS Integers, Sequences, FiniteSets, TLC

\* ------------------------------------------------------------------ bounds
PageBits == 2
MaxStreams == 3
MaxTableWords == 5

\* --------------------------------------------------------------- constants
\* const size_t kPageSize = 4096 (a power of two), scaled to 2^PageBits
kPageSize == 2^PageBits

Zeros(n) == [k \in 1..n |-> 0]

\* const uint8_t kBlankPage[kPageSize] = {0}
kBlankPage == Zeros(kPageSize)

Min(a, b) == IF a < b THEN a ELSE b

\* bitwise and of two naturals, as the & of isFpmPage
RECURSIVE BitAnd(_, _)
BitAnd(a, b) ==
    IF a = 0 \/ b = 0 THEN 0
    ELSE (a % 2) * (b % 2) + 2 * BitAnd(a \div 2, b \div 2)

\* ::pageCount(pageSize, length): pages needed for length bytes
PageCountFor(pageSize, length) == (length + pageSize - 1) \div pageSize

\* ----------------------------------------------------------------- streams
\* A stream handle is null or refers to a byte sequence.
NullStream == [null |-> TRUE, data |-> <<>>]

StreamLengths == {0, 1, kPageSize - 1, kPageSize, kPageSize + 1, 10 * kPageSize}

\* the bytes of the test stream of a given length (all non-zero)
StreamBytes(len) == [k \in 1..len |-> ((k + len) % 7) + 1]

MakeStream(len) == [null |-> FALSE, data |-> StreamBytes(len)]

StreamChoices == {MakeStream(len) : len \in StreamLengths}

\* stream->length()
StreamLength(stream) == Len(stream.data)

\* stream->read(maxBytes, buf) at cursor pos: the bytes delivered
StreamRead(stream, pos, maxBytes) ==
    SubSeq(stream.data, pos + 1, Min(pos + maxBytes, Len(stream.data)))

\* ------------------------------------------------------------------ writer
\* isFpmPage with its two cases shifted by one (case 2: case 3)
isFpmPage_OffByOne(page) ==
    LET r == BitAnd(page, kPageSize - 1) IN r = 2 \/ r = 3

isFpmPage(page) ==
    LET r == BitAnd(page, kPageSize - 1) IN r = 1 \/ r = 2

\* writePage: w is [file, pagesWritten, pageCount]; data is the argument the
\* caller passes, from names the caller's buffer (kBlankPage or buf).
writePage(w, data, from) ==
    [file |-> Append(w.file, [ordinal |-> w.pageCount, from |-> from,
                              data |-> data, written |-> kBlankPage]),
     pagesWritten |-> Append(w.pagesWritten, w.pageCount),
     pageCount |-> w.pageCount + 1]

RECURSIVE writeStreamLoop(_, _, _)
writeStreamLoop(w, stream, pos) ==
    LET chunk == StreamRead(stream, pos, kPageSize)
        bytesRead == Len(chunk)
        leftOver == kPageSize - bytesRead
        buf == chunk \o Zeros(leftOver)
        w1 == IF isFpmPage(w.pageCount)
              THEN writePage(writePage(w, kBlankPage, "kBlankPage"),
                             kBlankPage, "kBlankPage")
              ELSE w
    IN  IF bytesRead = 0 THEN w
        ELSE writeStreamLoop(writePage(w1, buf, "buf"), stream, pos + bytesRead)

\* writeStream giving an empty stream one page of its own
writeStream_EmptyPage(w, stream) ==
    IF stream.null THEN w
    ELSE IF StreamLength(stream) = 0 THEN writePage(w, kBlankPage, "buf")
    ELSE writeStreamLoop(w, stream, 0)

writeStream(w, stream) ==
    IF stream.null \/ StreamLength(stream) = 0 THEN w
    ELSE writeStreamLoop(w, stream, 0)

\* ------------------------------------------------------------------ reader
\* The causes of InvalidMsf, in the order the constructor tests them.
MissingHeader == "Missing MSF header"
InvalidHeader == "Invalid MSF header"
InvalidLength == "Invalid MSF file length"
MissingRootList == "Missing root MSF stream table page list"
FailedPageList == "failed to read stream table page list"
FailedStreamTable == "failed to read stream table"
InvalidStreamCount == "invalid stream count in stream table"

\* A crash of the process on an out-of-bounds read (undefined behaviour).
Crashed == "crash"

\* the j-th byte (j from 0) of a 32-bit value
Limb(n, j) == (n \div (256 ^ j)) % 256

RECURSIVE ColumnSum(_, _, _, _)
ColumnSum(a, b, k, i) ==
    IF i > 3 THEN 0
    ELSE (IF k - i >= 0 /\ k - i <= 3 THEN Limb(a, i) * Limb(b, k - i) ELSE 0)
         + ColumnSum(a, b, k, i + 1)

RECURSIVE ProductLimbs(_, _, _, _)
ProductLimbs(a, b, k, carry) ==
    IF k > 7 THEN <<>>
    ELSE LET t == ColumnSum(a, b, k, 0) + carry
         IN  <<t % 256>> \o ProductLimbs(a, b, k + 1, t \div 256)

\* the product of two 32-bit values as an integer, in 8 little-endian bytes
ExactProduct(a, b) == ProductLimbs(a, b, 0, 0)

\* uint32_t * uint32_t: the low 32 bits, then widened to 64 bits for the
\* comparison with the int64_t of getFileSize
U32Product(a, b) ==
    LET p == ExactProduct(a, b)
    IN  SubSeq(p, 1, 4) \o <<0, 0, 0, 0>>

\* getFileSize(f): the size of the file as an int64_t, in 8 bytes
getFileSize(f) ==
    <<Limb(f.fileSize, 0), Limb(f.fileSize, 1), Limb(f.fileSize, 2),
      Limb(f.fileSize, 3), 0, 0, 0, 0>>

\* header.pageSize * header.pageCount != getFileSize(f.get())
LengthMismatch(f) == U32Product(f.pageSize, f.pageCount) # getFileSize(f)

\* header.streamTableInfo.size
StreamTableSize(f) == 4 * Len(f.table)

\* stPagesPagesCount
StPagesPagesCount(f) == PageCountFor(f.pageSize, StreamTableSize(f))

\* fread of the root page list: the number of words delivered
RootListRead(f) == Min(f.rootAvail, StPagesPagesCount(f))

\* streamTablePagesStream.read(): the number of bytes delivered
PageListRead(f) == IF f.plShort THEN 0 ELSE StPagesPagesCount(f) * 4

\* streamTableStream.read(): the number of bytes delivered
StreamTableRead(f) == IF f.stShort THEN 0 ELSE StreamTableSize(f)

\* The values an out-of-bounds read of the stream table may deliver.
UBValues == {0, kPageSize + 1}

\* streamTable[index] (index from 0): the values the read may deliver
ReadWord(t, index) == IF index < Len(t) THEN {t[index + 1]} ELSE UBValues

\* new MsfFileStream(f, pageSize, size, pages): the stream keeps its length
\* and its ceil(size / pageSize) page numbers from first on (index from 0);
\* entries past the end of the table are garbage.
MsfFileStream(t, pageSize, size, first, garbage) ==
    [length |-> size,
     pages |-> [k \in 1..PageCountFor(pageSize, size) |->
                   IF first + k - 1 < Len(t) THEN t[first + k] ELSE garbage]]

\* pagesIndex advanced by one entry per stream, whatever its size
NextPagesIndex_PerStream(pagesIndex, pageSize, size) == pagesIndex + 1

\* pagesIndex += ::pageCount(header.pageSize, size)
NextPagesIndex(pagesIndex, pageSize, size) ==
    pagesIndex + PageCountFor(pageSize, size)

Max(a, b) == IF a > b THEN a ELSE b

\* ------------------------------------------------------------ files to open
TableWords == {0, 2, kPageSize + 1}

TableSet == UNION {[1..n -> TableWords] : n \in 0..MaxTableWords}

\* <<pageSize, pageCount, file size>>
HeaderTriples ==
    { <<kPageSize, 4, 4 * kPageSize>>, <<kPageSize, 5, 4 * kPageSize>>,
      <<4096, 12, 40960>>, <<4096, 10, 40960>>,
      <<4096, 1048577, 4096>>, <<65536, 65537, 65536>> }

\* files that differ in what the header and the three reads deliver
HeaderFiles ==
    { [hdrBytes |-> h, magicOk |-> m, pageSize |-> t[1], pageCount |-> t[2],
       fileSize |-> t[3], rootAvail |-> r, plShort |-> p, stShort |-> s,
       table |-> tb] :
        h \in BOOLEAN, m \in BOOLEAN, t \in HeaderTriples, r \in {0, 16},
        p \in BOOLEAN, s \in BOOLEAN, tb \in {<<>>, <<1, 1, 4>>} }

\* well-formed files around every stream table
TableFiles ==
    { [hdrBytes |-> TRUE, magicOk |-> TRUE, pageSize |-> kPageSize,
       pageCount |-> 16, fileSize |-> 16 * kPageSize, rootAvail |-> 16,
       plShort |-> FALSE, stShort |-> FALSE, table |-> tb] : tb \in TableSet }

CraftedFiles == HeaderFiles \cup TableFiles

NoFile ==
    [hdrBytes |-> FALSE, magicOk |-> FALSE, pageSize |-> 0, pageCount |-> 0,
     fileSize |-> 0, rootAvail |-> 0, plShort |-> FALSE, stShort |-> FALSE,
     table |-> <<>>]

\* The file MsfFile::write leaves behind, as the constructor sees it.  The
\* header is the start of page 0.  A page 0 of zero bytes is the all-zero
\* header, whose magic is not kMsfHeaderMagic; write never stores another.
WrittenFile(pages, table, tablePages) ==
    IF pages = <<>> THEN NoFile
    ELSE IF pages[1].written = kBlankPage
    THEN [NoFile EXCEPT !.hdrBytes = TRUE,
                        !.fileSize = Len(pages) * kPageSize,
                        !.rootAvail = (kPageSize \div 4) * Len(pages)]
    ELSE [hdrBytes |-> TRUE, magicOk |-> TRUE, pageSize |-> kPageSize,
          pageCount |-> Len(pages), fileSize |-> Len(pages) * kPageSize,
          rootAvail |-> (kPageSize \div 4) * Len(pages),
          plShort |-> FALSE, stShort |-> tablePages = <<>>, table |-> table]

\* ------------------------------------------------------------------- state
VARIABLES streams, wpc, idx, file, pageCount, streamTable, streamTablePages,
          rpc, source, rfile, result, st, streamCount, ri, pagesIndex,
          rstreams, touchedMax

wvars == <<streams, wpc, idx, file, pageCount, streamTable, streamTablePages>>
dvars == <<st, streamCount, ri, pagesIndex, rstreams, touchedMax>>
vars == <<wvars, rpc, source, rfile, result, dvars>>
rvars == <<rpc, source, rfile, result, dvars>>

Init ==
    /\ streams = <<>>
    /\ wpc = "idle"
    /\ idx = 0
    /\ file = <<>>
    /\ pageCount = 0
    /\ streamTable = <<>>
    /\ streamTablePages = <<>>
    /\ rpc = "none"
    /\ source = "none"
    /\ rfile = NoFile
    /\ result = "none"
    /\ st = <<>>
    /\ streamCount = 0
    /\ ri = 0
    /\ pagesIndex = 0
    /\ rstreams = <<>>
    /\ touchedMax = -1

\* the container is built and neither written nor being parsed
Idle == wpc = "idle" /\ rpc = "none"

\* MsfFile::addStream
addStream(stream) ==
    /\ Len(streams) < MaxStreams
    /\ streams' = Append(streams, stream)
    /\ UNCHANGED <<wpc, idx, file, pageCount, streamTable, streamTablePages>>
    /\ UNCHANGED rvars

\* MsfFile::replaceStream
replaceStream(index, stream) ==
    /\ index \in 1..Len(streams)
    /\ streams' = [streams EXCEPT ![index] = stream]
    /\ UNCHANGED <<wpc, idx, file, pageCount, streamTable, streamTablePages>>
    /\ UNCHANGED rvars

\* MsfFile::write, the preamble and the initial stream table
WriteBegin ==
    /\ wpc = "idle" /\ rpc = "none"
    /\ file' = [p \in 1..4 |-> [ordinal |-> p - 1, from |-> "preamble",
                                data |-> kBlankPage, written |-> kBlankPage]]
    /\ pageCount' = 4
    /\ streamTable' = <<Len(streams)>> \o
           [k \in 1..Len(streams) |->
               IF ~streams[k].null THEN StreamLength(streams[k]) ELSE 0]
    /\ idx' = 1
    /\ wpc' = "streams"
    /\ UNCHANGED <<streams, streamTablePages>>
    /\ UNCHANGED rvars

\* MsfFile::write, one iteration of the loop over _streams
WriteNextStream ==
    /\ wpc = "streams"
    /\ idx <= Len(streams)
    /\ LET w == writeStream([file |-> file, pagesWritten |-> streamTable,
                             pageCount |-> pageCount], streams[idx])
       IN  /\ file' = w.file
           /\ streamTable' = w.pagesWritten
           /\ pageCount' = w.pageCount
    /\ idx' = idx + 1
    /\ UNCHANGED <<streams, wpc, streamTablePages>>
    /\ UNCHANGED rvars

\* the stream write serializes last: a read-only stream over the local,
\* still empty streamTablePages vector
streamTableStream(localPages) ==
    [null |-> FALSE, data |-> Zeros(Len(localPages) * 4)]

\* MsfFile::write, the stream table stream
WriteStreamTable ==
    /\ wpc = "streams"
    /\ idx > Len(streams)
    /\ LET w == writeStream([file |-> file, pagesWritten |-> <<>>,
                             pageCount |-> pageCount], streamTableStream(<<>>))
       IN  /\ file' = w.file
           /\ streamTablePages' = w.pagesWritten
           /\ pageCount' = w.pageCount
    /\ wpc' = "written"
    /\ UNCHANGED <<streams, idx, streamTable>>
    /\ UNCHANGED rvars

\* MsfFile::MsfFile(FileRef f) entered with a file from outside
OpenCrafted ==
    /\ wpc = "idle" /\ rpc = "none" /\ streams = <<>>
    /\ \E f \in CraftedFiles : rfile' = f
    /\ source' = "crafted"
    /\ rpc' = "header"
    /\ UNCHANGED <<wvars, result, dvars>>

\* MsfFile::MsfFile(FileRef f) entered with the file write produced
OpenWritten ==
    /\ wpc = "written" /\ rpc = "none"
    /\ rfile' = WrittenFile(file, streamTable, streamTablePages)
    /\ source' = "written"
    /\ rpc' = "header"
    /\ UNCHANGED <<wvars, result, dvars>>

\* throw InvalidMsf(cause)
Throw(cause) ==
    /\ rpc' = "done"
    /\ result' = cause

Proceed(to) ==
    /\ rpc' = to
    /\ UNCHANGED result

ReadHeader ==
    /\ rpc = "header"
    /\ IF ~rfile.hdrBytes THEN Throw(MissingHeader) ELSE Proceed("magic")
    /\ UNCHANGED <<wvars, source, rfile, dvars>>

\* the constructor without its magic test
CheckMagic_Skipped ==
    /\ rpc = "magic"
    /\ Proceed("length")
    /\ UNCHANGED <<wvars, source, rfile, dvars>>

CheckMagic ==
    /\ rpc = "magic"
    /\ IF ~rfile.magicOk THEN Throw(InvalidHeader) ELSE Proceed("length")
    /\ UNCHANGED <<wvars, source, rfile, dvars>>

CheckLength ==
    /\ rpc = "length"
    /\ IF LengthMismatch(rfile) THEN Throw(InvalidLength)
       ELSE Proceed("rootlist")
    /\ UNCHANGED <<wvars, source, rfile, dvars>>

ReadRootList ==
    /\ rpc = "rootlist"
    /\ IF RootListRead(rfile) # StPagesPagesCount(rfile)
       THEN Throw(MissingRootList) ELSE Proceed("pagelist")
    /\ UNCHANGED <<wvars, source, rfile, dvars>>

ReadPageList ==
    /\ rpc = "pagelist"
    /\ IF PageListRead(rfile) # StPagesPagesCount(rfile) * 4
       THEN Throw(FailedPageList) ELSE Proceed("table")
    /\ UNCHANGED <<wvars, source, rfile, dvars>>

ReadStreamTable ==
    /\ rpc = "table"
    /\ IF StreamTableRead(rfile) # StreamTableSize(rfile)
       THEN /\ Throw(FailedStreamTable)
            /\ UNCHANGED st
       ELSE /\ Proceed("count")
            /\ st' = rfile.table
    /\ UNCHANGED <<wvars, source, rfile, streamCount, ri, pagesIndex,
                   rstreams, touchedMax>>

\* const uint32_t& streamCount = streamTable[0]
ReadStreamCount ==
    /\ rpc = "count"
    /\ \E n \in ReadWord(st, 0) : streamCount' = n
    /\ touchedMax' = 0
    /\ ri' = 0
    /\ pagesIndex' = 0
    /\ Proceed("decode")
    /\ UNCHANGED <<wvars, source, rfile, st, rstreams>>

\* the loop has run streamCount times
DecodeDone ==
    /\ rpc = "decode"
    /\ ri >= streamCount
    /\ Throw("ok")
    /\ UNCHANGED <<wvars, source, rfile, dvars>>

\* the guard of the loop body
DecodeGuard ==
    /\ rpc = "decode"
    /\ ri < streamCount
    /\ pagesIndex >= Len(st)
    /\ Throw(InvalidStreamCount)
    /\ UNCHANGED <<wvars, source, rfile, dvars>>

\* the index (from 0) of the first page entry of the stream at pagesIndex
FirstEntry == 1 + streamCount + pagesIndex

\* the highest index (from 0) the loop body touches for a stream of size
LastTouched(size) ==
    IF PageCountFor(rfile.pageSize, size) = 0 THEN 1 + ri
    ELSE Max(1 + ri, FirstEntry + PageCountFor(rfile.pageSize, size) - 1)

\* one stream: its size, its MsfFileStream, addStream, the next pagesIndex
DecodeStream ==
    /\ rpc = "decode"
    /\ ri < streamCount
    /\ pagesIndex < Len(st)
    /\ \E size \in ReadWord(st, 1 + ri) :
         \E garbage \in (IF LastTouched(size) < Len(st) THEN {0} ELSE UBValues) :
           /\ rstreams' = Append(rstreams,
                  MsfFileStream(st, rfile.pageSize, size, FirstEntry, garbage))
           /\ pagesIndex' = NextPagesIndex(pagesIndex, rfile.pageSize, size)
           /\ touchedMax' = Max(touchedMax, LastTouched(size))
    /\ ri' = ri + 1
    /\ Proceed("decode")
    /\ UNCHANGED <<wvars, source, rfile, st, streamCount>>

\* an out-of-bounds read of the stream table may also end the process
DecodeCrash ==
    /\ \/ rpc = "count" /\ Len(st) = 0
       \/ /\ rpc = "decode" /\ ri < streamCount /\ pagesIndex < Len(st)
          /\ \E size \in ReadWord(st, 1 + ri) : LastTouched(size) >= Len(st)
    /\ Throw(Crashed)
    /\ UNCHANGED <<wvars, source, rfile, dvars>>

Next ==
    \/ Idle /\ \E s \in StreamChoices \cup {NullStream} : addStream(s)
    \/ Idle /\ \E k \in 1..MaxStreams, s \in StreamChoices \cup {NullStream} :
                   replaceStream(k, s)
    \/ WriteBegin
    \/ WriteNextStream
    \/ WriteStreamTable
    \/ OpenCrafted
    \/ OpenWritten
    \/ ReadHeader
    \/ CheckMagic
    \/ CheckLength
    \/ ReadRootList
    \/ ReadPageList
    \/ ReadStreamTable
    \/ ReadStreamCount
    \/ DecodeDone
    \/ DecodeGuard
    \/ DecodeStream
    \/ DecodeCrash

Spec == Init /\ [][Next]_vars

\* ------------------------------------------------------------ properties
\* the declared length of each entry of the collection (0 for a null entry)
Sizes(ss) == [k \in 1..Len(ss) |-> IF ss[k].null THEN 0 ELSE Len(ss[k].data)]

IsPayload(e) == e.from = "buf"
IsReserved(e) == e.from = "kBlankPage"

\* the pages emitted with the caller's buf, in emission order
PayloadPages == SelectSeq(file, IsPayload)

\* the loop over _streams of write has ended
StreamsWritten == wpc \in {"streams", "written"} /\ idx > Len(streams)

RECURSIVE SumPages(_, _, _)
SumPages(sizes, pageSize, n) ==
    IF n = 0 THEN 0
    ELSE SumPages(sizes, pageSize, n - 1) + (sizes[n] + pageSize - 1) \div pageSize

RECURSIVE Chunks(_)
Chunks(data) ==
    IF Len(data) = 0 THEN <<>>
    ELSE IF Len(data) <= kPageSize
    THEN <<data \o [k \in 1..(kPageSize - Len(data)) |-> 0]>>
    ELSE <<SubSeq(data, 1, kPageSize)>> \o Chunks(SubSeq(data, kPageSize + 1, Len(data)))

RECURSIVE AllChunks(_, _)
AllChunks(ss, n) ==
    IF n = 0 THEN <<>> ELSE AllChunks(ss, n - 1) \o Chunks(ss[n].data)

RECURSIVE ConcatPages(_, _, _)
ConcatPages(pages, list, n) ==
    IF n = 0 THEN <<>>
    ELSE ConcatPages(pages, list, n - 1) \o
         (IF list[n] + 1 \in 1..Len(pages) THEN pages[list[n] + 1].written ELSE <<>>)

\* the bytes an opened stream delivers from the file's pages
ReadBack(rs) ==
    LET all == ConcatPages(file, rs.pages, Len(rs.pages))
    IN  SubSeq(all, 1, Min(rs.length, Len(all)))

\* C1: round trip.  Opening the file that write produced from a non-empty
\* collection succeeds and yields the same number of streams, the same
\* length at each index and the same bytes for each stream.
C1_RoundTrip ==
    (source = "written" /\ rpc = "done" /\ Len(streams) > 0) =>
        /\ result = "ok"
        /\ Len(rstreams) = Len(streams)
        /\ \A k \in 1..Len(streams) :
              /\ rstreams[k].length = Sizes(streams)[k]
              /\ ReadBack(rstreams[k]) = streams[k].data

\* C2: bounds safety of directory decoding.  The constructor never touches
\* an index at or past the number of words of the stream table: not for the
\* count, not for a size, not for a page-entry range handed to a stream.
C2_BoundsSafe == touchedMax < Len(st)

\* the length validation has been performed
LengthChecked ==
    rpc \in {"rootlist", "pagelist", "table", "count", "decode"}
    \/ (rpc = "done" /\ result \notin {MissingHeader, InvalidHeader})

\* C3: file-length check.  The constructor gets past the length validation
\* if and only if pageSize times pageCount, as the exact integer product,
\* equals the size of the file.
C3_ExactLength ==
    LengthChecked =>
        ((result # InvalidLength) <=>
         (ExactProduct(rfile.pageSize, rfile.pageCount) = getFileSize(rfile)))

\* the first of the checks 1 to 6 a file violates, "none" without one
FirstViolated(f) ==
    IF ~f.hdrBytes THEN MissingHeader
    ELSE IF ~f.magicOk THEN InvalidHeader
    ELSE IF LengthMismatch(f) THEN InvalidLength
    ELSE IF f.rootAvail < StPagesPagesCount(f) THEN MissingRootList
    ELSE IF f.plShort /\ StPagesPagesCount(f) > 0 THEN FailedPageList
    ELSE IF f.stShort /\ Len(f.table) > 0 THEN FailedStreamTable
    ELSE "none"

Causes ==
    {MissingHeader, InvalidHeader, InvalidLength, MissingRootList,
     FailedPageList, FailedStreamTable, InvalidStreamCount}

\* the value of pagesIndex when the k-th stream (k from 1) was constructed
OffsetOf(k) ==
    SumPages([j \in 1..Len(rstreams) |-> rstreams[j].length], rfile.pageSize, k - 1)

ValidTable(t, pageSize) ==
    /\ Len(t) >= 1
    /\ Len(t) >= 1 + t[1]
    /\ Len(t) = 1 + t[1] + SumPages(SubSeq(t, 2, 1 + t[1]), pageSize, t[1])

\* C5: stream materialization.  Opening a file whose stream table is valid
\* yields exactly n streams; stream i has length size_i and the
\* ceil(size_i / pageSize) entries that start, in the region after the n
\* sizes, at the sum of the page counts of the streams before it.
C5_Materialization ==
    (rpc = "done" /\ ValidTable(st, rfile.pageSize)) =>
        /\ result = "ok"
        /\ Len(rstreams) = st[1]
        /\ \A k \in 1..st[1] :
              LET sizes == SubSeq(st, 2, 1 + st[1])
                  off == 1 + st[1] + SumPages(sizes, rfile.pageSize, k - 1)
                  cnt == (sizes[k] + rfile.pageSize - 1) \div rfile.pageSize
              IN  /\ rstreams[k].length = sizes[k]
                  /\ rstreams[k].pages = SubSeq(st, off + 1, off + cnt)

\* C5 witness: sizes {0, pageSize + 1} opened as a stream of 0 pages and a
\* stream of 2 pages.
C5_Witness ==
    /\ rpc = "done" /\ result = "ok"
    /\ Len(st) = 5 /\ st[1] = 2 /\ st[2] = 0 /\ st[3] = rfile.pageSize + 1
    /\ st[4] # st[5]
    /\ Len(rstreams) = 2
    /\ rstreams[1].pages = <<>>
    /\ rstreams[2].pages = <<st[4], st[5]>>

\* C6: FPM reservation.  Past the preamble a page is a blank reserved page
\* exactly when its ordinal modulo the page size is 1 or 2; the two pages of
\* a pair are emitted back to back right before a payload page, and the
\* cursor never rests on the second page of a pair.
C6_FpmReservation ==
    wpc # "idle" =>
        /\ pageCount = Len(file)
        /\ pageCount % kPageSize # 2
        /\ \A k \in 1..Len(file) : file[k].ordinal = k - 1
        /\ \A k \in 5..Len(file) :
              /\ file[k].from \in {"kBlankPage", "buf"}
              /\ IsReserved(file[k]) <=> ((k - 1) % kPageSize \in {1, 2})
              /\ IsReserved(file[k]) => file[k].written = kBlankPage
              /\ (IsReserved(file[k]) /\ (k - 1) % kPageSize = 1) =>
                    /\ k + 2 <= Len(file)
                    /\ IsReserved(file[k + 1])
                    /\ IsPayload(file[k + 2])
              /\ (IsReserved(file[k]) /\ (k - 1) % kPageSize = 2) =>
                    IsReserved(file[k - 1])

\* C6 witness: a stream's pages straddle a reserved pair.
C6_Witness ==
    \E k \in 5..Len(file) :
        /\ k + 3 <= Len(file)
        /\ IsPayload(file[k]) /\ IsReserved(file[k + 1])
        /\ IsReserved(file[k + 2]) /\ IsPayload(file[k + 3])

\* C7: the directory built by write.  After the loop over the streams the
\* stream table is the count, the sizes, and then for each stream in order
\* the ordinals of its payload pages, ceil(size_i / pageSize) of them, and no
\* ordinal of a reserved page.
C7_Directory ==
    StreamsWritten =>
        /\ Len(PayloadPages) = SumPages(Sizes(streams), kPageSize, Len(streams))
        /\ streamTable = <<Len(streams)>> \o Sizes(streams) \o
               [k \in 1..Len(PayloadPages) |-> PayloadPages[k].ordinal]

\* C8: stream table emission.  write ends by emitting the directory as one
\* more stream: at least one page, ceil(4 * words / pageSize) of them, after
\* the pages of the last stream, their ordinals recorded as the stream
\* table's own page list.
C8_StreamTableEmitted ==
    wpc = "written" =>
        LET need == PageCountFor(kPageSize, 4 * Len(streamTable))
        IN  /\ need >= 1
            /\ Len(streamTablePages) = need
            /\ Len(PayloadPages) =
                   SumPages(Sizes(streams), kPageSize, Len(streams)) + need

\* C9: payload page content.  The k-th payload page of a stream holds the
\* stream's bytes of that chunk in order, then zero bytes up to the page size.
C9_PayloadContent ==
    (wpc = "streams" /\ idx > Len(streams)) =>
        [k \in 1..Len(PayloadPages) |-> PayloadPages[k].written]
            = AllChunks(streams, Len(streams))

IsNullOrEmpty(stream) == stream.null \/ Len(stream.data) = 0

\* C10: null and empty streams in write.  Either records size 0 at its own
\* index, and writing it leaves the page cursor, the file and every page list
\* as they were, also with the cursor on a reserved ordinal, so that the
\* streams after it start from the cursor the streams before it left.
C10_NullEmptyFrame ==
    [][(wpc = "streams" /\ idx <= Len(streams) /\ IsNullOrEmpty(streams[idx]))
          => /\ streamTable[1 + idx] = 0
             /\ file' = file
             /\ pageCount' = pageCount
             /\ streamTable' = streamTable
             /\ streamTablePages' = streamTablePages
             /\ idx' = idx + 1]_vars

\* C10 witness: a null entry and an empty stream were passed over, the null
\* one with the cursor on a reserved ordinal.
C10_Witness ==
    /\ wpc = "streams"
    /\ idx = 4
    /\ ~IsNullOrEmpty(streams[1])
    /\ streams[2].null
    /\ ~streams[3].null /\ IsNullOrEmpty(streams[3])
    /\ isFpmPage(pageCount)
====
